---------------------------- MODULE Spec2Model ----------------------------
(***************************************************************************)
(* Subscription tracking in front of the MQTT broker engine (package mqtt).*)
(*                                                                         *)
(* Broker (src/mqtt/broker.go) builds the broker engine, constructs the    *)
(* topic manager and binds the engine's subscribe / unsubscribe events to  *)
(* it.  The topic manager itself (Filter Registry, transition callbacks,   *)
(* matching, Cleanup Scheduler) is modelled from its specification.        *)
(*                                                                         *)
(* A string is a sequence of symbols.  The symbol "/" is the level         *)
(* separator, "+" and "#" are the wildcard characters and every other      *)
(* symbol stands for a run of ordinary characters.                         *)
(***************************************************************************)
EXTENDS Integers, Sequences, FiniteSets, TLC

----------------------------------------------------------------------------
(* Bounds of the model *)

\* largest value of the clock
MaxTime == 1
\* number of subscribe / unsubscribe events the broker engine delivers
MaxEvents == 4
\* number of levels of the strings the matching is explored on
MaxLevels == 3

----------------------------------------------------------------------------
(* Strings *)

SEP == "/"
PLUS == <<"+">>
HASH == <<"#">>

\* strings.Split(s, "/"): the levels of s, an empty string has one empty level
RECURSIVE SplitFrom(_, _, _, _)
SplitFrom(s, i, cur, acc) ==
    IF i > Len(s) THEN Append(acc, cur)
    ELSE IF s[i] = SEP THEN SplitFrom(s, i + 1, <<>>, Append(acc, cur))
    ELSE SplitFrom(s, i + 1, Append(cur, s[i]), acc)

Split(s) == SplitFrom(s, 1, <<>>, <<>>)

\* the string whose levels are ls (at least one level)
RECURSIVE Join(_)
Join(ls) ==
    IF Len(ls) = 1 THEN ls[1]
    ELSE ls[1] \o <<SEP>> \o Join(Tail(ls))

\* the level-by-level walk of the filter's levels fl against the topic's
\* levels tl, from level i on
RECURSIVE MatchFrom(_, _, _)
MatchFrom(tl, fl, i) ==
    IF i > Len(fl) THEN i > Len(tl)
    ELSE IF fl[i] = HASH THEN i = Len(fl)
    ELSE IF i > Len(tl) THEN FALSE
    ELSE IF fl[i] = PLUS THEN MatchFrom(tl, fl, i + 1)
    ELSE IF fl[i] = tl[i] THEN MatchFrom(tl, fl, i + 1)
    ELSE FALSE

\* does the filter string match the concrete topic string
Matches(topic, filter) == MatchFrom(Split(topic), Split(filter), 1)


----------------------------------------------------------------------------
(* Inputs the model draws from *)

\* the filter strings clients subscribe to and unsubscribe from
SensorsPlusTemp == <<"sensors", "/", "+", "/", "temp">>
SensorsHashTemp == <<"sensors", "/", "#", "/", "temp">>

Filters == { SensorsPlusTemp, SensorsHashTemp }

\* the concrete topics the publish path asks about
Sensors42Temp == <<"sensors", "/", "42", "/", "temp">>
Sensors42Humidity == <<"sensors", "/", "42", "/", "humidity">>

Topics == { Sensors42Temp, Sensors42Humidity }

\* the client connections of the broker engine
Clients == {"c1", "c2"}

\* the cleanup thresholds an application configures: none, and one tick
\* of the clock
Thresholds == {0, 1}

\* brokerOpts, as far as NewBroker reads it
BrokerOptionsSet ==
    [ WebsocketEnabled : BOOLEAN,
      TCPEnabled : BOOLEAN,
      TCPAuthEnabled : BOOLEAN,
      TCPTLSEnabled : BOOLEAN,
      TopicCleanupThreshold : Thresholds ]

\* what NewBroker's collaborators answer: net.SplitHostPort on the two bind
\* addresses, NewAuthAllowUsers, NewTLSSettings and the two AddListener calls
Environments ==
    [ wsAddrOK : BOOLEAN, wsListenOK : BOOLEAN,
      tcpAddrOK : BOOLEAN, tcpListenOK : BOOLEAN,
      authOK : BOOLEAN, tlsOK : BOOLEAN ]

----------------------------------------------------------------------------
(* State *)

VARIABLES
    broker,         \* "none", "error", "built", "serving" or "closed"
    brokerErr,      \* the error NewBroker returned, "" when none
    opts,           \* Broker.opts, as far as the model reads it
    hooks,          \* are Events.OnTopicSubscribe / OnTopicUnsubscribe bound
    tmState,        \* topic manager: "none", "running" or "stopped"
    tmOnSubscribe,  \* handler the topic manager calls on a 0 -> 1 transition
    tmOnUnsubscribe,\* handler the topic manager calls on a 1 -> 0 transition
    cleanupThreshold, \* grace period of a zero-count entry
    entries,        \* the registry: filter string -> [count, lastZeroAt]
    now,            \* the clock
    pc,             \* per client: "idle", or the callback it is about to run
    cbArg,          \* per client: the filter of that callback
    sweepPc,        \* Cleanup Scheduler: "idle" or "sweeping"
    sweepNow,       \* the time the sweep in flight was started with
    events,         \* subscribe / unsubscribe events delivered so far
    net,            \* per filter: Subscribe calls less the Unsubscribe
                    \* calls that were applied
    owedFirst,      \* per filter: 0 -> 1 transitions less the invocations
                    \* of the application's onSubscribe handler
    owedLast,       \* per filter: 1 -> 0 transitions less the invocations
                    \* of the application's onUnsubscribe handler
    lastCalled,     \* per filter: the handler invoked last
    firstLessLast,  \* per filter: invocations of the onSubscribe handler
                    \* less those of the onUnsubscribe handler
    answer          \* the latest answer of HasSubscribers that a caller kept

tmVars == <<tmState, tmOnSubscribe, tmOnUnsubscribe, cleanupThreshold>>
sweepVars == <<sweepPc, sweepNow>>
histVars == <<events, net>>
cbVars == <<owedFirst, owedLast, lastCalled, firstLessLast>>
vars == <<broker, brokerErr, opts, hooks, tmVars, entries, now, pc, cbArg,
          sweepVars, histVars, cbVars, answer>>

\* lastZeroAt is none or one time
NoTime == <<>>
At(t) == <<t>>

\* the value of counter table fn at key k
Get(fn, k) == IF k \in DOMAIN fn THEN fn[k] ELSE 0

\* table fn with d added at key k; a key at 0 is not kept
Add(fn, k, d) ==
    LET v == Get(fn, k) + d
        keys == IF v = 0 THEN DOMAIN fn \ {k} ELSE DOMAIN fn \cup {k}
    IN  [x \in keys |-> IF x = k THEN v ELSE fn[x]]

\* table fn with value v at key k
Put(fn, k, v) == [x \in DOMAIN fn \cup {k} |-> IF x = k THEN v ELSE fn[x]]

\* the handler invoked last for filter f, "" when none was
LastCalled(f) == IF f \in DOMAIN lastCalled THEN lastCalled[f] ELSE ""

\* the subscriber count the registry holds for filter f
Count(reg, f) == IF f \in DOMAIN reg THEN reg[f].count ELSE 0

\* a table with no key
Empty == [k \in {} |-> 0]

----------------------------------------------------------------------------
(* Filter Registry *)

\* Increment(filter): create the entry if absent, add one to its count and
\* clear lastZeroAt; first reports a 0 -> 1 transition
Increment(reg, f) ==
    LET old == Count(reg, f)
        new == [count |-> old + 1, lastZeroAt |-> NoTime]
    IN  [ reg |-> [g \in DOMAIN reg \cup {f} |-> IF g = f THEN new ELSE reg[g]],
          first |-> old = 0 ]

\* Decrement(filter): nothing for an absent or zero-count filter, else take
\* one from its count, and on reaching 0 set lastZeroAt; last reports a
\* 1 -> 0 transition
Decrement(reg, f, t) ==
    IF f \notin DOMAIN reg \/ reg[f].count = 0
    THEN [reg |-> reg, last |-> FALSE]
    ELSE LET c == reg[f].count - 1
             new == [count |-> c,
                     lastZeroAt |-> IF c = 0 THEN At(t) ELSE reg[f].lastZeroAt]
         IN  [ reg |-> [reg EXCEPT ![f] = new], last |-> c = 0 ]

\* Size(): the entries held, zero-count ones included
RegistrySize(reg) == Cardinality(DOMAIN reg)

\* has the entry been at count 0 for at least threshold at time t
Stale(e, t, threshold) ==
    /\ e.count = 0
    /\ e.lastZeroAt # NoTime
    /\ t - e.lastZeroAt[1] >= threshold

----------------------------------------------------------------------------
(* Topic Manager *)

\* newTopicManager(onSubscribe, onUnsubscribe, cleanupThreshold): an empty
\* registry, the two handlers, and the Cleanup Scheduler started
newTopicManager(onSubscribe, onUnsubscribe, threshold) ==
    /\ tmState' = "running"
    /\ tmOnSubscribe' = onSubscribe
    /\ tmOnUnsubscribe' = onUnsubscribe
    /\ cleanupThreshold' = threshold
    /\ entries' = Empty
    /\ sweepPc' = "idle"
    /\ sweepNow' = 0

\* Subscribe(filter) up to the return of Registry.Increment; on a 0 -> 1
\* transition the caller goes on to run the first-subscriber callback
Subscribe(filter, client) ==
    LET r == Increment(entries, filter) IN
    /\ entries' = r.reg
    /\ IF r.first
       THEN /\ pc' = [pc EXCEPT ![client] = "first"]
            /\ cbArg' = [cbArg EXCEPT ![client] = filter]
       ELSE UNCHANGED <<pc, cbArg>>

\* Unsubscribe(filter) up to the return of Registry.Decrement; on a 1 -> 0
\* transition the caller goes on to run the last-unsubscriber callback
Unsubscribe(filter, client) ==
    LET r == Decrement(entries, filter, now) IN
    /\ entries' = r.reg
    /\ IF r.last
       THEN /\ pc' = [pc EXCEPT ![client] = "last"]
            /\ cbArg' = [cbArg EXCEPT ![client] = filter]
       ELSE UNCHANGED <<pc, cbArg>>

\* the rest of Subscribe / Unsubscribe: the transition callback, run
\* synchronously by the caller that caused the transition
RunCallback(client) ==
    /\ pc[client] # "idle"
    /\ LET h == IF pc[client] = "first" THEN tmOnSubscribe ELSE tmOnUnsubscribe
           f == cbArg[client]
       IN  /\ owedFirst' = IF h = "onSubscribe" THEN Add(owedFirst, f, -1)
                           ELSE owedFirst
           /\ owedLast' = IF h = "onUnsubscribe" THEN Add(owedLast, f, -1)
                          ELSE owedLast
           /\ lastCalled' = Put(lastCalled, f, h)
           /\ firstLessLast' = Add(firstLessLast, f,
                                   IF h = "onSubscribe" THEN 1 ELSE -1)
    /\ pc' = [pc EXCEPT ![client] = "idle"]
    /\ cbArg' = [cbArg EXCEPT ![client] = <<>>]
    /\ UNCHANGED <<broker, brokerErr, opts, hooks, tmVars, entries, now,
                   sweepVars, histVars, answer>>

\* hasSubscribers(topic): some filter with count > 0 matches the topic
hasSubscribers(topic) ==
    \E f \in DOMAIN entries : entries[f].count > 0 /\ Matches(topic, f)

\* Size() of the topic manager
Size == RegistrySize(entries)

----------------------------------------------------------------------------
(* Cleanup Scheduler *)

\* Sweep(now, threshold): the registry without its stale entries
Sweep(reg, t, threshold) ==
    [f \in {g \in DOMAIN reg : ~Stale(reg[g], t, threshold)} |-> reg[f]]

\* a tick of the scheduler: it reads the clock and goes on to call Sweep
SweepTick ==
    /\ tmState = "running"
    /\ sweepPc = "idle"
    /\ sweepPc' = "sweeping"
    /\ sweepNow' = now
    /\ UNCHANGED <<broker, brokerErr, opts, hooks, tmVars, entries, now, pc,
                   cbArg, histVars, cbVars, answer>>

\* the sweep of the tick in flight: Registry.Sweep(now, threshold), one
\* step at the registry's serialization point
SweepRun ==
    /\ sweepPc = "sweeping"
    /\ entries' = Sweep(entries, sweepNow, cleanupThreshold)
    /\ sweepPc' = "idle"
    /\ sweepNow' = 0
    /\ UNCHANGED <<broker, brokerErr, opts, hooks, tmVars, now, pc, cbArg,
                   histVars, cbVars, answer>>

\* the topic manager is stopped: the scheduler's future ticks are cancelled
StopTopicManager ==
    /\ tmState = "running"
    /\ tmState' = "stopped"
    /\ UNCHANGED <<broker, brokerErr, opts, hooks, tmOnSubscribe,
                   tmOnUnsubscribe, cleanupThreshold, entries, now, pc,
                   cbArg, sweepVars, histVars, cbVars, answer>>

\* time passes
Tick ==
    /\ now < MaxTime
    /\ now' = now + 1
    /\ UNCHANGED <<broker, brokerErr, opts, hooks, tmVars, entries, pc, cbArg,
                   sweepVars, histVars, cbVars, answer>>

----------------------------------------------------------------------------
(* Broker *)

\* the error NewBroker returns before it constructs the topic manager,
\* "" when it gets that far
NewBrokerError(brokerOpts, env) ==
    IF ~brokerOpts.WebsocketEnabled /\ ~brokerOpts.TCPEnabled
        THEN "at least websocket or TCP must be enabled"
    ELSE IF brokerOpts.WebsocketEnabled /\ ~env.wsAddrOK
        THEN "parsing websocket bind address failed"
    ELSE IF brokerOpts.WebsocketEnabled /\ ~env.wsListenOK
        THEN "adding websocket listener failed"
    ELSE IF brokerOpts.TCPEnabled /\ ~env.tcpAddrOK
        THEN "parsing TCP bind address failed"
    ELSE IF brokerOpts.TCPEnabled /\ brokerOpts.TCPAuthEnabled /\ ~env.authOK
        THEN "Enabling TCP Authentication failed"
    ELSE IF brokerOpts.TCPEnabled /\ brokerOpts.TCPTLSEnabled /\ ~env.tlsOK
        THEN "Enabling TCP TLS failed"
    ELSE IF brokerOpts.TCPEnabled /\ ~env.tcpListenOK
        THEN "adding TCP listener failed"
    ELSE ""

\* NewBroker constructing the topic manager with no grace period
NewBrokerNoThreshold(onSubscribe, onUnsubscribe, brokerOpts, env) ==
    /\ broker = "none"
    /\ LET err == NewBrokerError(brokerOpts, env) IN
       IF err # ""
       THEN /\ broker' = "error"
            /\ brokerErr' = err
            /\ UNCHANGED <<opts, hooks, tmVars, entries, sweepVars>>
       ELSE /\ newTopicManager(onSubscribe, onUnsubscribe, 0)
            /\ hooks' = TRUE
            /\ broker' = "built"
            /\ opts' = [TopicCleanupThreshold |->
                            brokerOpts.TopicCleanupThreshold]
            /\ brokerErr' = ""
    /\ UNCHANGED <<now, pc, cbArg, histVars, cbVars, answer>>

\* NewBroker handing the two handlers to newTopicManager in the wrong order
NewBrokerHandlersSwapped(onSubscribe, onUnsubscribe, brokerOpts, env) ==
    /\ broker = "none"
    /\ LET err == NewBrokerError(brokerOpts, env) IN
       IF err # ""
       THEN /\ broker' = "error"
            /\ brokerErr' = err
            /\ UNCHANGED <<opts, hooks, tmVars, entries, sweepVars>>
       ELSE /\ newTopicManager(onUnsubscribe, onSubscribe,
                               brokerOpts.TopicCleanupThreshold)
            /\ hooks' = TRUE
            /\ broker' = "built"
            /\ opts' = [TopicCleanupThreshold |->
                            brokerOpts.TopicCleanupThreshold]
            /\ brokerErr' = ""
    /\ UNCHANGED <<now, pc, cbArg, histVars, cbVars, answer>>

\* NewBroker constructing the topic manager with a grace period longer
\* than the one configured, and longer than the clock runs
NewBrokerThresholdTooLong(onSubscribe, onUnsubscribe, brokerOpts, env) ==
    /\ broker = "none"
    /\ LET err == NewBrokerError(brokerOpts, env) IN
       IF err # ""
       THEN /\ broker' = "error"
            /\ brokerErr' = err
            /\ UNCHANGED <<opts, hooks, tmVars, entries, sweepVars>>
       ELSE /\ newTopicManager(onSubscribe, onUnsubscribe,
                               brokerOpts.TopicCleanupThreshold + MaxTime + 1)
            /\ hooks' = TRUE
            /\ broker' = "built"
            /\ opts' = [TopicCleanupThreshold |->
                            brokerOpts.TopicCleanupThreshold]
            /\ brokerErr' = ""
    /\ UNCHANGED <<now, pc, cbArg, histVars, cbVars, answer>>

\* NewBroker constructing the topic manager and binding the hooks before
\* it sets the listeners up
NewBrokerTopicManagerFirst(onSubscribe, onUnsubscribe, brokerOpts, env) ==
    /\ broker = "none"
    /\ newTopicManager(onSubscribe, onUnsubscribe,
                       brokerOpts.TopicCleanupThreshold)
    /\ hooks' = TRUE
    /\ LET err == NewBrokerError(brokerOpts, env) IN
       IF err # ""
       THEN /\ broker' = "error"
            /\ brokerErr' = err
            /\ UNCHANGED opts
       ELSE /\ broker' = "built"
            /\ opts' = [TopicCleanupThreshold |->
                            brokerOpts.TopicCleanupThreshold]
            /\ brokerErr' = ""
    /\ UNCHANGED <<now, pc, cbArg, histVars, cbVars, answer>>

\* NewBroker(onSubscribe, onUnsubscribe, brokerOpts)
NewBroker(onSubscribe, onUnsubscribe, brokerOpts, env) ==
    /\ broker = "none"
    /\ LET err == NewBrokerError(brokerOpts, env) IN
       IF err # ""
       THEN /\ broker' = "error"
            /\ brokerErr' = err
            /\ UNCHANGED <<opts, hooks, tmVars, entries, sweepVars>>
       ELSE /\ newTopicManager(onSubscribe, onUnsubscribe,
                               brokerOpts.TopicCleanupThreshold)
            /\ hooks' = TRUE
            /\ broker' = "built"
            /\ opts' = [TopicCleanupThreshold |->
                            brokerOpts.TopicCleanupThreshold]
            /\ brokerErr' = ""
    /\ UNCHANGED <<now, pc, cbArg, histVars, cbVars, answer>>

\* Broker.Start: the engine serves
Start ==
    /\ broker = "built"
    /\ broker' = "serving"
    /\ UNCHANGED <<brokerErr, opts, hooks, tmVars, entries, now, pc, cbArg,
                   sweepVars, histVars, cbVars, answer>>

\* Stop tearing the Cleanup Scheduler down with the engine, a sweep in
\* flight included
StopKillsScheduler ==
    /\ broker \in {"built", "serving"}
    /\ broker' = "closed"
    /\ tmState' = "stopped"
    /\ sweepPc' = "idle"
    /\ sweepNow' = 0
    /\ UNCHANGED <<brokerErr, opts, hooks, tmOnSubscribe, tmOnUnsubscribe,
                   cleanupThreshold, entries, now, pc, cbArg, histVars,
                   cbVars, answer>>

\* Broker.Stop: the engine is closed
Stop ==
    /\ broker \in {"built", "serving"}
    /\ broker' = "closed"
    /\ UNCHANGED <<brokerErr, opts, hooks, tmVars, entries, now, pc, cbArg,
                   sweepVars, histVars, cbVars, answer>>

\* the subscribe hook handing the client id over as the filter
OnTopicSubscribeByClient(filter, client, qos) ==
    Subscribe(<<client>>, client)

\* the subscribe hook bound to the topic manager's Unsubscribe
OnTopicSubscribeCallsUnsubscribe(filter, client, qos) ==
    Unsubscribe(filter, client)

\* the subscribe hook waiting on a lock that a caller keeps while it is in
\* its transition callback and the scheduler keeps while a sweep is in
\* flight
OnTopicSubscribeUnderCallbackLock(filter, client, qos) ==
    /\ \A c \in Clients : pc[c] = "idle"
    /\ sweepPc = "idle"
    /\ Subscribe(filter, client)

\* the hook bound to Events.OnTopicSubscribe
OnTopicSubscribe(filter, client, qos) ==
    Subscribe(filter, client)

\* the unsubscribe hook bound to the topic manager's Subscribe
OnTopicUnsubscribeCallsSubscribe(filter, client) ==
    Subscribe(filter, client)

\* the hook bound to Events.OnTopicUnsubscribe
OnTopicUnsubscribe(filter, client) ==
    Unsubscribe(filter, client)

\* HasSubscribers answering for any entry, whatever its count
HasSubscribersAnyCount(topic) ==
    \E f \in DOMAIN entries : Matches(topic, f)

\* HasSubscribers answering whether the registry holds a live filter at all
HasSubscribersAnyTopic(topic) ==
    \E f \in DOMAIN entries : entries[f].count > 0

\* the level-by-level walk with "#" matching at once wherever it stands
RECURSIVE MatchFromHashAnywhere(_, _, _)
MatchFromHashAnywhere(tl, fl, i) ==
    IF i > Len(fl) THEN i > Len(tl)
    ELSE IF fl[i] = HASH THEN TRUE
    ELSE IF i > Len(tl) THEN FALSE
    ELSE IF fl[i] = PLUS THEN MatchFromHashAnywhere(tl, fl, i + 1)
    ELSE IF fl[i] = tl[i] THEN MatchFromHashAnywhere(tl, fl, i + 1)
    ELSE FALSE

\* HasSubscribers taking "#" as a wildcard in any position of a filter
HasSubscribersHashAnywhere(topic) ==
    \E f \in DOMAIN entries :
        /\ entries[f].count > 0
        /\ MatchFromHashAnywhere(Split(topic), Split(f), 1)

\* Broker.HasSubscribers(topic)
HasSubscribers(topic) == hasSubscribers(topic)

\* TopicsManagerSize counting only the entries with subscribers
TopicsManagerSizeLiveOnly ==
    Cardinality({ f \in DOMAIN entries : entries[f].count > 0 })

\* Broker.TopicsManagerSize()
TopicsManagerSize == Size

----------------------------------------------------------------------------
(* The broker engine and the publish path *)

\* the engine delivers a client's subscribe event to the bound hook
SubscribeEvent(client, filter, qos) ==
    /\ broker = "serving"
    /\ hooks
    /\ pc[client] = "idle"
    /\ events < MaxEvents
    /\ OnTopicSubscribe(filter, client, qos)
    /\ events' = events + 1
    /\ net' = Add(net, filter, 1)
    /\ owedFirst' = IF Count(entries, filter) = 0 /\ Count(entries', filter) > 0
                    THEN Add(owedFirst, filter, 1) ELSE owedFirst
    /\ owedLast' = IF Count(entries, filter) > 0 /\ Count(entries', filter) = 0
                   THEN Add(owedLast, filter, 1) ELSE owedLast
    /\ UNCHANGED <<broker, brokerErr, opts, hooks, tmVars, now, sweepVars,
                   lastCalled, firstLessLast, answer>>

\* the engine delivers a client's unsubscribe event to the bound hook
UnsubscribeEvent(client, filter) ==
    /\ broker = "serving"
    /\ hooks
    /\ pc[client] = "idle"
    /\ events < MaxEvents
    /\ OnTopicUnsubscribe(filter, client)
    /\ events' = events + 1
    /\ net' = IF Count(entries', filter) # Count(entries, filter)
              THEN Add(net, filter, -1) ELSE net
    /\ owedFirst' = IF Count(entries, filter) = 0 /\ Count(entries', filter) > 0
                    THEN Add(owedFirst, filter, 1) ELSE owedFirst
    /\ owedLast' = IF Count(entries, filter) > 0 /\ Count(entries', filter) = 0
                   THEN Add(owedLast, filter, 1) ELSE owedLast
    /\ UNCHANGED <<broker, brokerErr, opts, hooks, tmVars, now, sweepVars,
                   lastCalled, firstLessLast, answer>>

\* the publish path asks whether a topic has subscribers
CallHasSubscribers(topic) ==
    /\ broker \in {"built", "serving", "closed"}
    /\ HasSubscribers(topic) \in BOOLEAN
    /\ UNCHANGED <<broker, brokerErr, opts, hooks, tmVars, entries, now, pc,
                   cbArg, sweepVars, histVars, cbVars, answer>>

\* the metric is read
CallTopicsManagerSize ==
    /\ broker \in {"built", "serving", "closed"}
    /\ TopicsManagerSize \in Nat
    /\ UNCHANGED <<broker, brokerErr, opts, hooks, tmVars, entries, now, pc,
                   cbArg, sweepVars, histVars, cbVars, answer>>

----------------------------------------------------------------------------
(* Specification *)

Init ==
    /\ broker = "none"
    /\ brokerErr = ""
    /\ opts = [TopicCleanupThreshold |-> 0]
    /\ hooks = FALSE
    /\ tmState = "none"
    /\ tmOnSubscribe = "nil"
    /\ tmOnUnsubscribe = "nil"
    /\ cleanupThreshold = 0
    /\ entries = Empty
    /\ now = 0
    /\ pc = [c \in Clients |-> "idle"]
    /\ cbArg = [c \in Clients |-> <<>>]
    /\ sweepPc = "idle"
    /\ sweepNow = 0
    /\ events = 0
    /\ net = Empty
    /\ owedFirst = Empty
    /\ owedLast = Empty
    /\ lastCalled = Empty
    /\ firstLessLast = Empty
    /\ answer = <<>>

Next ==
    \/ \E o \in BrokerOptionsSet, env \in Environments :
          NewBroker("onSubscribe", "onUnsubscribe", o, env)
    \/ Start
    \/ Stop
    \/ \E c \in Clients, f \in Filters, qos \in 0..2 : SubscribeEvent(c, f, qos)
    \/ \E c \in Clients, f \in Filters : UnsubscribeEvent(c, f)
    \/ \E c \in Clients : RunCallback(c)
    \/ \E t \in Topics : CallHasSubscribers(t)
    \/ CallTopicsManagerSize
    \/ SweepTick
    \/ SweepRun
    \/ StopTopicManager
    \/ Tick

Spec == Init /\ [][Next]_vars

\* the program under fair scheduling: the clock advances, the scheduler's
\* periodic task ticks and its sweep runs, and a callback that was entered
\* returns
LiveSpec ==
    /\ Init
    /\ [][Next]_vars
    /\ WF_vars(Tick)
    /\ WF_vars(SweepTick)
    /\ WF_vars(SweepRun)
    /\ \A c \in Clients : WF_vars(RunCallback(c))

----------------------------------------------------------------------------
(* Matching explored on one subscribed filter *)

TopicLevels == { <<>>, <<"a">>, <<"b">> }
FilterLevels == { <<>>, <<"a">>, PLUS, HASH }

\* the strings of 1 to MaxLevels levels drawn from ls
StringsOver(ls) ==
    UNION { { Join(q) : q \in [1..n -> ls] } : n \in 1..MaxLevels }

\* a filter is well formed when "#" is only its last level
WellFormed(filter) ==
    LET fl == Split(filter) IN
    \A i \in 1..Len(fl) : fl[i] = HASH => i = Len(fl)

\* a caller asks about a topic and keeps the answer
AskHasSubscribers(topic) ==
    /\ broker \in {"built", "serving", "closed"}
    /\ answer' = <<topic, HasSubscribers(topic)>>
    /\ UNCHANGED <<broker, brokerErr, opts, hooks, tmVars, entries, now, pc,
                   cbArg, sweepVars, histVars, cbVars>>

\* a serving broker after one client subscribed to one filter and its
\* first-subscriber callback returned
MatchInit ==
    \E f \in StringsOver(FilterLevels) :
        /\ broker = "serving"
        /\ brokerErr = ""
        /\ opts = [TopicCleanupThreshold |-> 0]
        /\ hooks = TRUE
        /\ tmState = "running"
        /\ tmOnSubscribe = "onSubscribe"
        /\ tmOnUnsubscribe = "onUnsubscribe"
        /\ cleanupThreshold = 0
        /\ entries = Increment(Empty, f).reg
        /\ now = 0
        /\ pc = [c \in Clients |-> "idle"]
        /\ cbArg = [c \in Clients |-> <<>>]
        /\ sweepPc = "idle"
        /\ sweepNow = 0
        /\ events = 1
        /\ net = Put(Empty, f, 1)
        /\ owedFirst = Empty
        /\ owedLast = Empty
        /\ lastCalled = Put(Empty, f, "onSubscribe")
        /\ firstLessLast = Put(Empty, f, 1)
        /\ answer = <<>>

MatchNext ==
    /\ answer = <<>>
    /\ \E t \in StringsOver(TopicLevels) : AskHasSubscribers(t)

MatchSpec == MatchInit /\ [][MatchNext]_vars

----------------------------------------------------------------------------
(* Properties *)

\* the clients about to run the callback of kind k for filter f
Pending(k, f) == { c \in Clients : pc[c] = k /\ cbArg[c] = f }

\* the matching rules stated on whole filters: a filter with "#" before its
\* last level matches nothing; a filter ending in "#" matches the topics
\* that agree with it on the levels before; any other filter matches the
\* topics of as many levels that agree with it on each
MatchRef(topic, filter) ==
    LET tl == Split(topic)
        fl == Split(filter)
        n == Len(fl)
        Agree(k) == \A i \in 1..k : fl[i] = PLUS \/ fl[i] = tl[i]
    IN  IF \E i \in 1..(n - 1) : fl[i] = HASH THEN FALSE
        ELSE IF fl[n] = HASH THEN Len(tl) >= n - 1 /\ Agree(n - 1)
        ELSE Len(tl) = n /\ Agree(n)

\* C1: for every filter the registry count equals the Subscribe calls less
\* the Unsubscribe calls that were applied, and no count is negative
C1_CountIsNetOfCalls ==
    /\ \A f \in Filters : Count(entries, f) = Get(net, f)
    /\ \A f \in DOMAIN entries : entries[f].count >= 0

\* C1 witness: two events were delivered, one a Subscribe that counted and
\* one an Unsubscribe that was ignored
C1_Witness ==
    /\ events = 2
    /\ Count(entries, SensorsPlusTemp) = 1
    /\ SensorsHashTemp \notin DOMAIN entries

\* C2: the application's onSubscribe handler has been invoked once for each
\* 0 -> 1 transition and its onUnsubscribe handler once for each 1 -> 0
\* transition, but for the transitions whose caller is about to invoke it
C2_CallbackPerTransition ==
    \A f \in Filters :
        /\ Get(owedFirst, f) = Cardinality(Pending("first", f))
        /\ Get(owedLast, f) = Cardinality(Pending("last", f))

\* C2 witness: a second subscriber arrived after the first-subscriber
\* callback, and no callback is pending for it
C2_Witness ==
    /\ Count(entries, SensorsPlusTemp) = 2
    /\ LastCalled(SensorsPlusTemp) = "onSubscribe"
    /\ \A c \in Clients : pc[c] = "idle"

\* C3: HasSubscribers(topic) is true exactly when some entry with count > 0
\* has a filter matching the topic
C3_HasSubscribersIffLiveMatch ==
    \A t \in Topics :
        HasSubscribers(t) <=>
            \E f \in DOMAIN entries :
                entries[f].count > 0 /\ MatchRef(t, f)

\* C3 witness: a matching filter is held at count 0 and HasSubscribers is
\* false for the topic
C3_Witness ==
    /\ SensorsPlusTemp \in DOMAIN entries
    /\ entries[SensorsPlusTemp].count = 0
    /\ MatchRef(Sensors42Temp, SensorsPlusTemp)
    /\ ~HasSubscribers(Sensors42Temp)

\* the filter subscribed in MatchInit
TheFilter == CHOOSE f \in DOMAIN entries : TRUE

\* C4: for a well-formed filter the answer about a topic is the one the
\* matching rules give, and the named examples come out as stated
C4_MatchIsLevelByLevel ==
    /\ (answer # <<>> /\ WellFormed(TheFilter)) =>
           answer[2] = MatchRef(answer[1], TheFilter)
    /\ Matches(<<"a", "/", "b", "/", "c">>, <<"a", "/", "+", "/", "c">>)
    /\ ~Matches(<<"a", "/", "b", "/", "x", "/", "c">>,
                <<"a", "/", "+", "/", "c">>)
    /\ Matches(<<"a", "/", "b", "/", "c">>, <<"a", "/", "#">>)
    /\ Matches(<<"a">>, <<"a", "/", "#">>)
    /\ ~Matches(<<"a", "/", "b", "/", "c">>, <<"a", "/", "b">>)

\* C4 witness: the filter a/# was asked about the topic a, with no level
\* left for "#", and answered yes
C4_Witness ==
    /\ DOMAIN entries = { <<"a", "/", "#">> }
    /\ answer = << <<"a">>, TRUE >>

\* a step in which the engine delivers an event
EventStep == events' = events + 1

\* a step in which the sweep in flight runs
SweepStep == sweepPc = "sweeping" /\ sweepPc' = "idle"

\* entry e has been at count 0 for at least the configured threshold at
\* the time the sweep in flight was called with
Aged(e) ==
    /\ e.count = 0
    /\ e.lastZeroAt # NoTime
    /\ sweepNow - e.lastZeroAt[1] >= opts.TopicCleanupThreshold

\* C5: a sweep removes every entry that has been at count 0 for at least
\* the threshold and keeps every other entry as it is, whatever the
\* threshold
C5_SweepRemovesExactlyAged ==
    [][SweepStep =>
          \A f \in DOMAIN entries :
              IF Aged(entries[f])
              THEN f \notin DOMAIN entries'
              ELSE f \in DOMAIN entries' /\ entries'[f] = entries[f]]_vars

\* C5 witness: with a threshold of 1 one filter was subscribed,
\* unsubscribed and swept away while the other is kept at count 0
C5_Witness ==
    /\ opts.TopicCleanupThreshold = 1
    /\ LastCalled(SensorsPlusTemp) = "onUnsubscribe"
    /\ SensorsPlusTemp \notin DOMAIN entries
    /\ SensorsHashTemp \in DOMAIN entries
    /\ entries[SensorsHashTemp].count = 0

\* C6: an Unsubscribe for a filter that is absent or at count 0 changes no
\* entry, schedules no callback and leaves the size as it is
C6_UnsubscribeAtZeroIsNoOp ==
    [][\A c \in Clients, f \in Filters :
          (EventStep /\ UnsubscribeEvent(c, f) /\ Count(entries, f) = 0) =>
              /\ entries' = entries
              /\ pc' = pc
              /\ cbArg' = cbArg
              /\ owedLast' = owedLast
              /\ TopicsManagerSize' = TopicsManagerSize]_vars

\* C6 witness: three events, of which one Subscribe and one Unsubscribe at
\* time 0 took the filter to 0 and the third was ignored: the entry still
\* carries the time of the first
C6_Witness ==
    /\ events = 3
    /\ now = 1
    /\ SensorsPlusTemp \in DOMAIN entries
    /\ entries[SensorsPlusTemp] = [count |-> 0, lastZeroAt |-> At(0)]
    /\ SensorsHashTemp \notin DOMAIN entries
    /\ \A c \in Clients : pc[c] = "idle"

\* C7: an entry leaves the registry, and the size goes down, only in a sweep
\* and only when aged; an Unsubscribe keeps every entry, and the one that
\* takes sensors/+/temp to 0 leaves sensors/42/temp without subscribers; a
\* Subscribe to sensors/+/temp gives sensors/42/temp subscribers and
\* sensors/42/humidity none
C7_EntriesLeaveOnlyBySweep ==
    [][/\ entries' # entries =>
              /\ TopicsManagerSize' < TopicsManagerSize => SweepStep
              /\ \A f \in DOMAIN entries :
                     f \notin DOMAIN entries' =>
                         SweepStep /\ Aged(entries[f])
       /\ \A c \in Clients, f \in Filters :
              (EventStep /\ UnsubscribeEvent(c, f)) =>
                  /\ DOMAIN entries' = DOMAIN entries
                  /\ TopicsManagerSize' = TopicsManagerSize
                  /\ Count(entries', SensorsPlusTemp) = 0 =>
                         ~HasSubscribers(Sensors42Temp)'
       /\ \A c \in Clients, q \in 0..2 :
              (EventStep /\ SubscribeEvent(c, SensorsPlusTemp, q)) =>
                  /\ TopicsManagerSize' >= 1
                  /\ HasSubscribers(Sensors42Temp)'
                  /\ ~HasSubscribers(Sensors42Humidity)']_vars

\* C7 witness: sensors/+/temp is the one entry, at count 0 for as long as
\* the threshold of 1, and sensors/42/temp has no subscribers
C7_Witness ==
    /\ TopicsManagerSize = 1
    /\ SensorsPlusTemp \in DOMAIN entries
    /\ entries[SensorsPlusTemp].count = 0
    /\ cleanupThreshold = 1
    /\ now - entries[SensorsPlusTemp].lastZeroAt[1] >= cleanupThreshold
    /\ ~HasSubscribers(Sensors42Temp)

\* C8: whichever client's event it is, a Subscribe adds one to the count of
\* the filter and schedules the first-subscriber callback only from count
\* 0; an Unsubscribe from count 2 or more takes one, schedules no callback
\* and leaves a matching topic with subscribers; the last-unsubscriber
\* callback is scheduled only by the Unsubscribe from count 1
C8_CountedPerFilterAcrossClients ==
    [][/\ \A c \in Clients, f \in Filters, q \in 0..2 :
              (EventStep /\ SubscribeEvent(c, f, q)) =>
                  /\ Count(entries', f) = Count(entries, f) + 1
                  /\ (pc'[c] = "first") = (Count(entries, f) = 0)
                  /\ pc'[c] # "last"
       /\ \A c \in Clients, f \in Filters :
              (EventStep /\ UnsubscribeEvent(c, f)) =>
                  /\ Count(entries, f) >= 2 =>
                         /\ Count(entries', f) = Count(entries, f) - 1
                         /\ pc' = pc
                         /\ f = SensorsPlusTemp =>
                                HasSubscribers(Sensors42Temp)'
                  /\ (pc'[c] = "last") = (Count(entries, f) = 1)
                  /\ pc'[c] # "first"]_vars

\* C8 witness: after two events the filter counts 2 while c1 is still in
\* the first-subscriber callback, so that c2 made the second Subscribe
C8_Witness ==
    /\ events = 2
    /\ Count(entries, SensorsPlusTemp) = 2
    /\ pc["c1"] = "first"
    /\ cbArg["c1"] = SensorsPlusTemp
    /\ pc["c2"] = "idle"

\* C9: the scheduler is running once NewBroker has constructed the topic
\* manager and can tick while that is not stopped; a stopped topic manager
\* stays stopped and starts no sweep; a sweep in flight can always run, and
\* stays in flight until it has run as a whole
C9_SchedulerLifetime ==
    [][/\ (broker = "none" /\ broker' = "built") =>
              tmState' = "running" /\ sweepPc' = "idle"
       /\ (tmState = "running" /\ sweepPc = "idle") => ENABLED SweepTick
       /\ tmState = "stopped" =>
              /\ tmState' = "stopped"
              /\ ~(sweepPc = "idle" /\ sweepPc' = "sweeping")
       /\ sweepPc = "sweeping" =>
              /\ ENABLED SweepRun
              /\ \/ sweepPc' = "sweeping" /\ sweepNow' = sweepNow
                 \/ /\ sweepPc' = "idle"
                    /\ entries' = Sweep(entries, sweepNow,
                                        cleanupThreshold)]_vars

\* C9 witness: the topic manager is stopped with a sweep in flight
C9_Witness ==
    /\ tmState = "stopped"
    /\ sweepPc = "sweeping"

\* C10: no step removes an entry whose count is 1 or more, a sweep leaves
\* such an entry as it is, and a Subscribe leaves its filter held with a
\* count of 1 or more and a matching topic with subscribers
C10_SweepNeverLosesSubscribe ==
    [][/\ entries' # entries =>
              \A f \in DOMAIN entries :
                  entries[f].count >= 1 => f \in DOMAIN entries'
       /\ SweepStep =>
              \A f \in DOMAIN entries :
                  entries[f].count >= 1 => entries'[f] = entries[f]
       /\ \A c \in Clients, f \in Filters, q \in 0..2 :
              (EventStep /\ SubscribeEvent(c, f, q)) =>
                  /\ f \in DOMAIN entries'
                  /\ entries'[f].count >= 1
                  /\ f = SensorsPlusTemp =>
                         HasSubscribers(Sensors42Temp)']_vars

\* C10 witness: a sweep without grace period is in flight while the
\* filter, unsubscribed before, has been subscribed again and its caller
\* is in the first-subscriber callback
C10_Witness ==
    /\ sweepPc = "sweeping"
    /\ cleanupThreshold = 0
    /\ LastCalled(SensorsPlusTemp) = "onUnsubscribe"
    /\ Count(entries, SensorsPlusTemp) = 1
    /\ \E c \in Clients : pc[c] = "first" /\ cbArg[c] = SensorsPlusTemp

\* C11: create-or-increment is one step. A Subscribe keeps every entry and
\* leaves its filter with an entry; on a filter without entry it creates
\* the entry at count 1 and reports the 0 -> 1 transition; on a filter
\* another caller has just created, and whose first-subscriber callback
\* that caller is still in, it takes the count to 2 and reports nothing.
\* After two Subscribe calls on a filter, and no other event, the count is
\* 2 and one first-subscriber callback was scheduled
C11_CreateOrIncrementIsAtomic ==
    [][\A c \in Clients, f \in Filters, q \in 0..2 :
          (EventStep /\ SubscribeEvent(c, f, q)) =>
              /\ DOMAIN entries' = DOMAIN entries \cup {f}
              /\ f \notin DOMAIN entries =>
                     /\ entries'[f] = [count |-> 1, lastZeroAt |-> NoTime]
                     /\ Pending("first", f)' = Pending("first", f) \cup {c}
                     /\ Get(owedFirst', f) = Get(owedFirst, f) + 1
              /\ (Count(entries, f) = 1 /\ Pending("first", f) # {}) =>
                     /\ entries'[f].count = 2
                     /\ Pending("first", f)' = Pending("first", f)
                     /\ owedFirst' = owedFirst
              /\ (events' = 2 /\ Get(net', f) = 2) =>
                     /\ entries'[f].count = 2
                     /\ Cardinality(Pending("first", f)')
                          + (IF LastCalled(f)' = "onSubscribe" THEN 1 ELSE 0)
                          = 1]_vars

\* C11 witness: two Subscribe calls on sensors/#/temp were the only events;
\* c2 made the entry and is still in its callback, c1 found the entry
C11_Witness ==
    /\ events = 2
    /\ DOMAIN entries = {SensorsHashTemp}
    /\ entries[SensorsHashTemp].count = 2
    /\ pc["c2"] = "first"
    /\ cbArg["c2"] = SensorsHashTemp
    /\ pc["c1"] = "idle"

\* C12: an entry carries lastZeroAt exactly when its count is 0; the
\* Unsubscribe that takes a count to 0 sets lastZeroAt to the time of that
\* call, whatever zero instant the entry had before, and a Subscribe clears
\* it; a sweep removes an entry only by the lastZeroAt it carries
C12_LastZeroAtIffZero ==
    [][/\ \A f \in DOMAIN entries' :
              (entries'[f].lastZeroAt # NoTime) <=> (entries'[f].count = 0)
       /\ \A c \in Clients, f \in Filters :
              (EventStep /\ UnsubscribeEvent(c, f) /\ Count(entries, f) = 1) =>
                  entries'[f] = [count |-> 0, lastZeroAt |-> At(now)]
       /\ \A c \in Clients, f \in Filters, q \in 0..2 :
              (EventStep /\ SubscribeEvent(c, f, q)) =>
                  /\ f \in DOMAIN entries'
                  /\ entries'[f].lastZeroAt = NoTime
       /\ SweepStep =>
              \A f \in DOMAIN entries \ DOMAIN entries' :
                  /\ entries[f].lastZeroAt # NoTime
                  /\ sweepNow - entries[f].lastZeroAt[1]
                         >= opts.TopicCleanupThreshold]_vars

\* C12 witness: sensors/+/temp went to 0 twice, each caller still in its
\* last-unsubscriber callback, and the entry carries the later time, at
\* which a sweep with threshold 1 keeps it
C12_Witness ==
    /\ \A c \in Clients : pc[c] = "last" /\ cbArg[c] = SensorsPlusTemp
    /\ entries[SensorsPlusTemp] = [count |-> 0, lastZeroAt |-> At(1)]
    /\ now = 1
    /\ cleanupThreshold = 1
    /\ ~Stale(entries[SensorsPlusTemp], now, cleanupThreshold)

\* C13: a Subscribe on a filter held at count 0 keeps the size, takes the
\* count to 1, schedules the first-subscriber callback again and gives a
\* matching topic subscribers; a Subscribe adds one to the size exactly
\* when its filter had no entry, and never changes it otherwise
C13_ResubscribeReusesEntry ==
    [][\A c \in Clients, f \in Filters, q \in 0..2 :
          (EventStep /\ SubscribeEvent(c, f, q)) =>
              /\ (f \in DOMAIN entries /\ entries[f].count = 0) =>
                     /\ TopicsManagerSize' = TopicsManagerSize
                     /\ entries'[f].count = 1
                     /\ pc'[c] = "first"
                     /\ cbArg'[c] = f
                     /\ f = SensorsPlusTemp => HasSubscribers(Sensors42Temp)'
              /\ (TopicsManagerSize' = TopicsManagerSize + 1)
                     <=> (f \notin DOMAIN entries)
              /\ TopicsManagerSize' \in
                     {TopicsManagerSize, TopicsManagerSize + 1}]_vars

\* C13 witness: no sweep can have removed anything (threshold 1 at time
\* 0); sensors/+/temp lost its last subscriber, was subscribed again on
\* the entry it kept, and its caller is in the first-subscriber callback
C13_Witness ==
    /\ cleanupThreshold = 1
    /\ now = 0
    /\ TopicsManagerSize = 1
    /\ Count(entries, SensorsPlusTemp) = 1
    /\ LastCalled(SensorsPlusTemp) = "onUnsubscribe"
    /\ pc["c2"] = "first"
    /\ cbArg["c2"] = SensorsPlusTemp
    /\ HasSubscribers(Sensors42Temp)

\* the filters clients subscribe to that have "#" before their last level
MalformedFilters == { f \in Filters : ~WellFormed(f) }

\* the topics a filter with "#" before its last level is tried on
A_B == <<"a", "/", "b">>
A_X_B == <<"a", "/", "x", "/", "b">>
A_Hash_B == <<"a", "/", "#", "/", "b">>
A_X_Y_B == <<"a", "/", "x", "/", "y", "/", "b">>

\* the match predicate refuses each of these filters on each topic
MalformedMatchNothing ==
    /\ \A f \in MalformedFilters, t \in Topics : ~Matches(t, f)
    /\ ~WellFormed(A_Hash_B)
    /\ \A t \in {A_B, A_X_B, A_Hash_B, A_X_Y_B} : ~Matches(t, A_Hash_B)

\* C14: a filter with "#" before its last level is subscribed like any
\* filter: it gets its entry, its count goes up by one, the first-subscriber
\* callback is scheduled from count 0 and the last-unsubscriber callback
\* from count 1. It matches no topic: a step that changes the count of such
\* a filter changes the answer of HasSubscribers for no topic, and leaves a
\* topic with subscribers only by a well-formed live filter
C14_MalformedFilterNeverMatches ==
    [][(\E f \in MalformedFilters : Count(entries', f) # Count(entries, f)) =>
          /\ MalformedMatchNothing
          /\ \A f \in MalformedFilters, c \in Clients, q \in 0..2 :
                 (EventStep /\ SubscribeEvent(c, f, q)) =>
                     /\ f \in DOMAIN entries'
                     /\ entries'[f].count = Count(entries, f) + 1
                     /\ (pc'[c] = "first") = (Count(entries, f) = 0)
          /\ \A f \in MalformedFilters, c \in Clients :
                 (EventStep /\ UnsubscribeEvent(c, f)) =>
                     (pc'[c] = "last") = (Count(entries, f) = 1)
          /\ \A t \in Topics :
                 /\ HasSubscribers(t)' = HasSubscribers(t)
                 /\ HasSubscribers(t)' =>
                        \E f \in DOMAIN entries' \ MalformedFilters :
                            entries'[f].count > 0]_vars

\* C14 witness: sensors/#/temp is the one live filter, its first-subscriber
\* callback was delivered, and neither topic has subscribers
C14_Witness ==
    /\ SensorsHashTemp \in MalformedFilters
    /\ Count(entries, SensorsHashTemp) >= 1
    /\ Count(entries, SensorsPlusTemp) = 0
    /\ LastCalled(SensorsHashTemp) = "onSubscribe"
    /\ \A t \in Topics : ~HasSubscribers(t)

\* filter f is held at count 0 by a topic manager that is not stopped, and
\* the clock runs long enough for the configured grace period to pass
ZeroEntry(f) ==
    /\ tmState # "stopped"
    /\ f \in DOMAIN entries
    /\ entries[f].count = 0
    /\ entries[f].lastZeroAt # NoTime
    /\ entries[f].lastZeroAt[1] + opts.TopicCleanupThreshold <= MaxTime

\* C15: under fair ticking an entry at count 0 does not stay: again and
\* again it is not there at count 0, being removed unless it is subscribed
\* again or the topic manager is stopped;
\* and if from some time on the topic manager is running and every entry
\* held is at count 0, then from some time on the size is 0
C15_ZeroEntriesEventuallyRemoved ==
    /\ \A f \in Filters : []<>~ZeroEntry(f)
    /\ <>[](/\ tmState = "running"
            /\ \A f \in DOMAIN entries : ZeroEntry(f))
           => <>[](tmState = "running" /\ TopicsManagerSize = 0)

\* C15 witness: with a grace period of 1 both filters were subscribed and
\* unsubscribed, both callbacks returned, and the running topic manager
\* holds no entry
C15_Witness ==
    /\ tmState = "running"
    /\ opts.TopicCleanupThreshold = 1
    /\ \A f \in Filters : LastCalled(f) = "onUnsubscribe"
    /\ \A c \in Clients : pc[c] = "idle"
    /\ events = MaxEvents
    /\ TopicsManagerSize = 0

Delivers(c) == pc[c] # "idle" /\ pc'[c] = "idle"

\* 1 when filter f has subscribers in registry reg, else 0
Live(reg, f) == IF Count(reg, f) > 0 THEN 1 ELSE 0

\* C17 as stated: the callbacks of a filter are invoked in alternation,
\* onFirstSubscriber first: onLastUnsubscriber only after onFirstSubscriber,
\* onFirstSubscriber only as the first invocation or after
\* onLastUnsubscriber, and when no caller is in a callback the last
\* invocation for a filter was onFirstSubscriber exactly when its count is
\* above 0
C17_CallbacksStrictlyAlternate ==
    [][/\ \A c \in Clients :
              Delivers(c) =>
                  /\ pc[c] = "last" =>
                         LastCalled(cbArg[c]) = "onSubscribe"
                  /\ pc[c] = "first" =>
                         LastCalled(cbArg[c]) \in {"", "onUnsubscribe"}
       /\ (\A c \in Clients : pc'[c] = "idle") =>
              \A f \in Filters :
                  (LastCalled(f)' = "onSubscribe")
                      <=> (Count(entries', f) > 0)]_vars

\* C17 amended: the transitions of a filter alternate, the callback of a
\* 0 -> 1 transition being scheduled only by the step from count 0 to 1 and
\* that of a 1 -> 0 transition only by the step from count 1 to 0; each
\* scheduled callback is invoked once, by the handler of its kind and for
\* its filter alone; the invocations of onFirstSubscriber less those of
\* onLastUnsubscriber are 1 for a filter with subscribers and 0 for one
\* without, corrected by the callbacks that callers are still to invoke,
\* so that with no caller in a callback they are 1 or 0 as the count is
\* above 0 or not. The order of invocation among callers is left open
C17_CallbackPerTransitionInAnyOrder ==
    [][/\ \A c \in Clients :
              (pc[c] = "idle" /\ pc'[c] # "idle") =>
                  /\ pc'[c] = "first" =>
                         /\ Count(entries, cbArg'[c]) = 0
                         /\ Count(entries', cbArg'[c]) = 1
                  /\ pc'[c] = "last" =>
                         /\ Count(entries, cbArg'[c]) = 1
                         /\ Count(entries', cbArg'[c]) = 0
       /\ \A c \in Clients :
              Delivers(c) =>
                  /\ cbArg[c] \in DOMAIN lastCalled'
                  /\ lastCalled'[cbArg[c]] =
                         (IF pc[c] = "first" THEN "onSubscribe"
                                             ELSE "onUnsubscribe")
                  /\ Get(firstLessLast', cbArg[c]) =
                         Get(firstLessLast, cbArg[c])
                             + (IF pc[c] = "first" THEN 1 ELSE -1)
                  /\ \A g \in Filters \ {cbArg[c]} :
                         /\ LastCalled(g)' = LastCalled(g)
                         /\ Get(firstLessLast', g) = Get(firstLessLast, g)
                  /\ entries' = entries
       /\ \A f \in Filters :
              Get(firstLessLast', f) =
                  Live(entries', f)
                      - Cardinality(Pending("first", f)')
                      + Cardinality(Pending("last", f)')]_vars

\* C17 witness: onLastUnsubscriber was invoked for sensors/+/temp while
\* the caller of the transition before it is still to invoke
\* onFirstSubscriber
C17_Witness ==
    /\ Get(firstLessLast, SensorsPlusTemp) = -1
    /\ LastCalled(SensorsPlusTemp) = "onUnsubscribe"
    /\ Count(entries, SensorsPlusTemp) = 0
    /\ pc["c1"] = "first"
    /\ cbArg["c1"] = SensorsPlusTemp
    /\ pc["c2"] = "idle"

\* the entries other than that of filter f are the same before and after
\* the step
OthersKept(f) ==
    /\ DOMAIN entries' \ {f} = DOMAIN entries \ {f}
    /\ \A g \in DOMAIN entries \ {f} : entries'[g] = entries[g]

\* C18: a Subscribe or Unsubscribe leaves every entry but that of its own
\* filter string as it is, and the callbacks of the other callers as they
\* are; a sweep keeps the entries it does not remove as they are, removes
\* only entries at count 0, and schedules and invokes no callback; the two
\* queries change no entry and schedule and invoke no callback
C18_OperationsTouchOnlyTheirEntry ==
    [][/\ \A c \in Clients, f \in Filters, q \in 0..2 :
              (EventStep /\ SubscribeEvent(c, f, q)) =>
                  /\ OthersKept(f)
                  /\ \A d \in Clients \ {c} :
                         pc'[d] = pc[d] /\ cbArg'[d] = cbArg[d]
                  /\ cbArg'[c] \in {cbArg[c], f}
                  /\ <<lastCalled, firstLessLast>>' =
                         <<lastCalled, firstLessLast>>
       /\ \A c \in Clients, f \in Filters :
              (EventStep /\ UnsubscribeEvent(c, f)) =>
                  /\ OthersKept(f)
                  /\ \A d \in Clients \ {c} :
                         pc'[d] = pc[d] /\ cbArg'[d] = cbArg[d]
                  /\ cbArg'[c] \in {cbArg[c], f}
                  /\ <<lastCalled, firstLessLast>>' =
                         <<lastCalled, firstLessLast>>
       /\ SweepStep =>
              /\ DOMAIN entries' \subseteq DOMAIN entries
              /\ \A f \in DOMAIN entries' : entries'[f] = entries[f]
              /\ \A f \in DOMAIN entries \ DOMAIN entries' :
                     entries[f].count = 0
              /\ <<pc, cbArg, cbVars>>' = <<pc, cbArg, cbVars>>
       /\ \A t \in Topics :
              CallHasSubscribers(t) =>
                  <<entries, pc, cbArg, cbVars>>' = <<entries, pc, cbArg, cbVars>>
       /\ CallTopicsManagerSize =>
              <<entries, pc, cbArg, cbVars>>' = <<entries, pc, cbArg, cbVars>>]_vars

\* C18 witness: sensors/#/temp is held at count 0 with the time it went to
\* 0, and stayed so while sensors/+/temp, which went to 0 at the same time,
\* was subscribed again later and its callback invoked
C18_Witness ==
    /\ now = 1
    /\ SensorsHashTemp \in DOMAIN entries
    /\ entries[SensorsHashTemp] = [count |-> 0, lastZeroAt |-> At(0)]
    /\ Count(entries, SensorsPlusTemp) = 1
    /\ LastCalled(SensorsPlusTemp) = "onSubscribe"
    /\ LastCalled(SensorsHashTemp) = "onUnsubscribe"
    /\ events = MaxEvents

\* does NewBroker fail on these options with these answers of its
\* collaborators
Fails(o, env) ==
    \/ ~o.WebsocketEnabled /\ ~o.TCPEnabled
    \/ o.WebsocketEnabled /\ (~env.wsAddrOK \/ ~env.wsListenOK)
    \/ /\ o.TCPEnabled
       /\ \/ ~env.tcpAddrOK
          \/ o.TCPAuthEnabled /\ ~env.authOK
          \/ o.TCPTLSEnabled /\ ~env.tlsOK
          \/ ~env.tcpListenOK

\* C19: NewBroker returns an error and no Broker exactly when neither
\* listener is enabled or a bind address, the authentication, the TLS
\* settings or AddListener fails; a failed NewBroker leaves no topic
\* manager, no scheduler that could tick and no bound hook, then and ever
\* after; a Broker is returned with a running topic manager, the two
\* handlers in place and the hooks bound, and a Broker has its topic
\* manager and its bound hooks for as long as it exists
C19_FailedNewBrokerBuildsNothing ==
    [][/\ (broker = "none" /\ broker' # "none") =>
              /\ \A o \in BrokerOptionsSet, env \in Environments :
                     NewBroker("onSubscribe", "onUnsubscribe", o, env) =>
                         /\ (broker' = "error") <=> Fails(o, env)
                         /\ (~o.WebsocketEnabled /\ ~o.TCPEnabled) =>
                                brokerErr' =
                                  "at least websocket or TCP must be enabled"
              /\ broker' \in {"error", "built"}
              /\ broker' = "error" =>
                     /\ brokerErr' # ""
                     /\ tmState' = "none"
                     /\ hooks' = FALSE
                     /\ entries' = Empty
              /\ broker' = "built" =>
                     /\ brokerErr' = ""
                     /\ tmState' = "running"
                     /\ tmOnSubscribe' = "onSubscribe"
                     /\ tmOnUnsubscribe' = "onUnsubscribe"
                     /\ hooks' = TRUE
       /\ broker = "error" =>
              /\ ~ENABLED SweepTick
              /\ ~ENABLED SweepRun
              /\ broker' = "error"
              /\ tmState' = "none"
              /\ hooks' = FALSE
       /\ broker \in {"built", "serving", "closed"} =>
              /\ tmState # "none"
              /\ hooks
              /\ hooks']_vars

\* C19 witness: NewBroker failed on the TLS settings, after both bind
\* addresses and the websocket listener were accepted, and time has passed
\* with no topic manager and no hook
C19_Witness ==
    /\ broker = "error"
    /\ brokerErr = "Enabling TCP TLS failed"
    /\ tmState = "none"
    /\ hooks = FALSE
    /\ now = MaxTime

=============================================================================
